---------------------------- MODULE Spec2Model ----------------------------
(***************************************************************************)
(* Model of the "visual supports" design-editor app:                       *)
(*   - emoji-map.ts : the lookup structures derived from vocabulary.json   *)
(*   - app.tsx      : addVisualSupportsWithStats and the App component     *)
(*   - the earlier app (addVisualSupports, no statistics)                  *)
(* A JavaScript string is a sequence of UTF-16 code units; a code unit is  *)
(* a one-character TLA+ string, or "uXXXX" for a non-ASCII unit.           *)
(***************************************************************************)
EXTENDS Naturals, Sequences, FiniteSets, TLC

VARIABLES
    \* emoji-map.ts
    vocabulary, loaded,
    EMOJI_MAP, WORD_CATEGORY_MAP, VOCABULARY_SIZE, VOCABULARY_BY_CATEGORY,
    \* one call of the annotation functions, and a second call on its result
    text, first, second, legacy,
    \* the App component and the host editor
    doc, selection, effectPending,
    status, stats, errorMessage, showVocabBreakdown,
    cycles

vars == << vocabulary, loaded,
           EMOJI_MAP, WORD_CATEGORY_MAP, VOCABULARY_SIZE, VOCABULARY_BY_CATEGORY,
           text, first, second, legacy,
           doc, selection, effectPending,
           status, stats, errorMessage, showVocabBreakdown,
           cycles >>

loadVars   == << vocabulary, loaded, EMOJI_MAP, WORD_CATEGORY_MAP,
                 VOCABULARY_SIZE, VOCABULARY_BY_CATEGORY >>
engineVars == << text, first, second, legacy >>
appVars    == << doc, selection, effectPending, status, stats, errorMessage,
                 showVocabBreakdown, cycles >>

-----------------------------------------------------------------------------
(* Bounds of the model *)

\* pieces (words, separators, emoji) concatenated into one input text
MaxPieces == 4
\* text elements in the host document
MaxItems == 2
\* onClick cycles that may be in flight at once
MaxCycles == 2
\* entries of a vocabulary list handed to the loader
MaxEntries == 2

-----------------------------------------------------------------------------
(* JavaScript strings and values *)

Range(s) == { s[i] : i \in 1..Len(s) }

UpperChars == << "A","B","C","D","E","F","G","H","I","J","K","L","M",
                 "N","O","P","Q","R","S","T","U","V","W","X","Y","Z" >>
LowerChars == << "a","b","c","d","e","f","g","h","i","j","k","l","m",
                 "n","o","p","q","r","s","t","u","v","w","x","y","z" >>
DigitChars == { "0","1","2","3","4","5","6","7","8","9" }

\* the regular expression class \w : [A-Za-z0-9_]
WordChars ==
    Range(UpperChars) \cup Range(LowerChars) \cup DigitChars \cup {"_"}

IsWordChar(c) == c \in WordChars

\* the lower-case letter of each upper-case letter
LowerOf ==
    [ c \in Range(UpperChars) |->
        LowerChars[CHOOSE i \in 1..26 : UpperChars[i] = c] ]

\* String.prototype.toLowerCase, per code unit
ToLowerChar(c) == IF c \in DOMAIN LowerOf THEN LowerOf[c] ELSE c

toLowerCase(s) == [ i \in 1..Len(s) |-> ToLowerChar(s[i]) ]

\* String.prototype.startsWith
startsWith(s, prefix) ==
    /\ Len(prefix) <= Len(s)
    /\ SubSeq(s, 1, Len(prefix)) = prefix

\* String.prototype.substring(from)
substring(s, from) == SubSeq(s, from + 1, Len(s))

\* JavaScript values met by a property read
Undefined  == [ t |-> "undefined" ]
StrVal(s)  == [ t |-> "string", s |-> s ]
ObjectCtor == [ t |-> "object", name |-> "Object" ]
ObjectProt == [ t |-> "object", name |-> "Object.prototype" ]

\* ToBoolean: undefined and "" are falsy, objects and functions are truthy
Truthy(v) ==
    \/ v.t = "object"
    \/ v.t = "string" /\ Len(v.s) > 0

ObjectCtorText ==
    << "f","u","n","c","t","i","o","n"," ","O","b","j","e","c","t","(",")",
       " ","{"," ","[","n","a","t","i","v","e"," ","c","o","d","e","]"," ","}" >>
ObjectProtText ==
    << "[","o","b","j","e","c","t"," ","O","b","j","e","c","t","]" >>

\* ToString, as a template literal `${v}` applies it
ToStr(v) ==
    CASE v.t = "string"    -> v.s
      [] v.t = "undefined" -> << "u","n","d","e","f","i","n","e","d" >>
      [] v = ObjectCtor    -> ObjectCtorText
      [] OTHER             -> ObjectProtText

\* the properties every plain object inherits from Object.prototype whose
\* names can be the lower-cased form of a \w+ token
ProtoKeyConstructor == << "c","o","n","s","t","r","u","c","t","o","r" >>
ProtoKeyProto       == << "_","_","p","r","o","t","o","_","_" >>

\* obj[key] on a plain object: an own property, else an inherited one
GetProp(obj, key) ==
    IF key \in DOMAIN obj THEN StrVal(obj[key])
    ELSE IF key = ProtoKeyConstructor THEN ObjectCtor
    ELSE IF key = ProtoKeyProto THEN ObjectProt
    ELSE Undefined

\* a JavaScript Set<T> keeps insertion order: a sequence without repeats
SetAdd(set, x) == IF x \in Range(set) THEN set ELSE Append(set, x)

-----------------------------------------------------------------------------
(* emoji-map.ts : the structures derived from vocabulary.json *)

DogWord == << "d","o","g" >>
CatWord == << "c","a","t" >>
\* U+1F436 DOG FACE, U+1F431 CAT FACE, as UTF-16 surrogate pairs
DogEmoji == << "uD83D", "uDC36" >>
CatEmoji == << "uD83D", "uDC31" >>

\* vocabulary.json, the imported list of {word, emoji, category} records
Vocabulary ==
    << [ word |-> DogWord, emoji |-> DogEmoji, category |-> "animals" ],
       [ word |-> CatWord, emoji |-> CatEmoji, category |-> "pets" ] >>

\* Object.fromEntries over [key, value] pairs: a later pair with the same key
\* overwrites the earlier one
ObjectFromEntries(pairs) ==
    [ k \in { pairs[i][1] : i \in 1..Len(pairs) } |->
        pairs[CHOOSE i \in 1..Len(pairs) :
                 /\ pairs[i][1] = k
                 /\ \A j \in 1..Len(pairs) : pairs[j][1] = k => j <= i][2] ]

BuildEmojiMap(v) ==
    ObjectFromEntries([ i \in 1..Len(v) |-> << v[i].word, v[i].emoji >> ])

BuildWordCategoryMap(v) ==
    ObjectFromEntries([ i \in 1..Len(v) |-> << v[i].word, v[i].category >> ])

VocabularySize(v) == Len(v)

\* the category names of the model in String.prototype.localeCompare order
CategoryOrder == << "animals", "food", "pets" >>
CategoryRank(c) == CHOOSE i \in 1..Len(CategoryOrder) : CategoryOrder[i] = c
localeCompareLess(a, b) == CategoryRank(a) < CategoryRank(b)

\* the loop over the vocabulary that fills the byCategory Map: every entry is
\* pushed to the list of its category
RECURSIVE FillByCategory(_, _, _)
FillByCategory(v, i, map) ==
    IF i > Len(v) THEN map
    ELSE LET entry == v[i]
             list  == IF entry.category \in DOMAIN map
                      THEN map[entry.category] ELSE << >>
             pushed == Append(list, [ word |-> entry.word, emoji |-> entry.emoji ])
         IN  FillByCategory(v, i + 1,
                [ c \in DOMAIN map \cup {entry.category} |->
                    IF c = entry.category THEN pushed ELSE map[c] ])

\* Array.from(byCategory.entries()).map(...).sort(by category)
BuildByCategory(v) ==
    LET map  == FillByCategory(v, 1, << >>)
        cats == DOMAIN map
        nth(i) == CHOOSE c \in cats :
                     Cardinality({ d \in cats : localeCompareLess(d, c) }) = i - 1
    IN  [ i \in 1..Cardinality(cats) |->
            [ category |-> nth(i), entries |-> map[nth(i)] ] ]

-----------------------------------------------------------------------------
(* app.tsx : addVisualSupportsWithStats *)

\* the end of the match of /\b\w+\b/ that starts at index i (1-based)
WordEnd(t, i) ==
    CHOOSE j \in i..Len(t) :
        /\ \A k \in i..j : IsWordChar(t[k])
        /\ j = Len(t) \/ ~IsWordChar(t[j + 1])

\* a faulty variant of the replace callback, without the look-ahead for an
\* emoji already present: C1_Idempotence must not hold of it
ReplaceWordNoLookAhead(acc, word, offset, original) ==
    LET scanned == [ acc EXCEPT !.scannedWords = @ + 1 ]
        lower   == toLowerCase(word)
        emoji   == GetProp(EMOJI_MAP, lower)
    IN  IF ~Truthy(emoji)
        THEN [ scanned EXCEPT !.out = @ \o word ]
        ELSE LET category == GetProp(WORD_CATEGORY_MAP, lower)
             IN  [ scanned EXCEPT
                     !.matchedWords = @ + 1,
                     !.uniqueTerms = SetAdd(@, lower),
                     !.categoriesUsed =
                         IF Truthy(category) THEN SetAdd(@, category) ELSE @,
                     !.supportsAdded = @ + 1,
                     !.out = @ \o word \o << " " >> \o ToStr(emoji) ]

\* the replace callback (word, offset, original), with the counters and sets
\* it captures passed in and out as acc; offset is 0-based as in JavaScript
ReplaceWord(acc, word, offset, original) ==
    LET scanned == [ acc EXCEPT !.scannedWords = @ + 1 ]
        lower   == toLowerCase(word)
        emoji   == GetProp(EMOJI_MAP, lower)
    IN  IF ~Truthy(emoji)
        THEN [ scanned EXCEPT !.out = @ \o word ]
        ELSE LET category == GetProp(WORD_CATEGORY_MAP, lower)
                 matched  ==
                    [ scanned EXCEPT
                        !.matchedWords = @ + 1,
                        !.uniqueTerms = SetAdd(@, lower),
                        !.categoriesUsed =
                            IF Truthy(category) THEN SetAdd(@, category) ELSE @ ]
                 after == substring(original, offset + Len(word))
             IN  IF startsWith(after, << " " >> \o ToStr(emoji))
                 THEN [ matched EXCEPT !.out = @ \o word ]
                 ELSE [ matched EXCEPT
                          !.supportsAdded = @ + 1,
                          !.out = @ \o word \o << " " >> \o ToStr(emoji) ]

\* text.replace(/\b\w+\b/g, callback) from index i on
RECURSIVE ReplaceFrom(_, _, _)
ReplaceFrom(t, i, acc) ==
    IF i > Len(t) THEN acc
    ELSE IF ~IsWordChar(t[i])
    THEN ReplaceFrom(t, i + 1, [ acc EXCEPT !.out = Append(@, t[i]) ])
    ELSE LET j == WordEnd(t, i)
         IN  ReplaceFrom(t, j + 1, ReplaceWord(acc, SubSeq(t, i, j), i - 1, t))

addVisualSupportsWithStats(t) ==
    LET acc == ReplaceFrom(t, 1,
                 [ out |-> << >>, scannedWords |-> 0, matchedWords |-> 0,
                   supportsAdded |-> 0, uniqueTerms |-> << >>,
                   categoriesUsed |-> << >> ])
    IN  [ rewrittenText |-> acc.out,
          stats |-> [ scannedWords   |-> acc.scannedWords,
                      matchedWords   |-> acc.matchedWords,
                      uniqueMatched  |-> Len(acc.uniqueTerms),
                      supportsAdded  |-> acc.supportsAdded,
                      categoriesUsed |-> acc.categoriesUsed,
                      vocabularySize |-> VOCABULARY_SIZE ] ]

\* text.matchAll(/\b\w+\b/g): the matched words from index i on, in order
RECURSIVE MatchAllFrom(_, _)
MatchAllFrom(t, i) ==
    IF i > Len(t) THEN << >>
    ELSE IF ~IsWordChar(t[i]) THEN MatchAllFrom(t, i + 1)
    ELSE LET j == WordEnd(t, i)
         IN  << SubSeq(t, i, j) >> \o MatchAllFrom(t, j + 1)

matchAll(t) == MatchAllFrom(t, 1)

-----------------------------------------------------------------------------
(* the earlier app : addVisualSupports *)

RECURSIVE LegacyReplaceFrom(_, _, _)
LegacyReplaceFrom(t, i, out) ==
    IF i > Len(t) THEN out
    ELSE IF ~IsWordChar(t[i])
    THEN LegacyReplaceFrom(t, i + 1, Append(out, t[i]))
    ELSE LET j     == WordEnd(t, i)
             word  == SubSeq(t, i, j)
             emoji == GetProp(EMOJI_MAP, toLowerCase(word))
             after == substring(t, (i - 1) + Len(word))
         IN  LegacyReplaceFrom(t, j + 1,
                IF ~Truthy(emoji) THEN out \o word
                ELSE IF startsWith(after, << " " >> \o ToStr(emoji))
                THEN out \o word
                ELSE out \o word \o << " " >> \o ToStr(emoji))

addVisualSupports(t) == LegacyReplaceFrom(t, 1, << >>)

-----------------------------------------------------------------------------
(* The state of emoji-map.ts once the module has been evaluated *)

Null == [ t |-> "null" ]

\* a slot for an onClick call: none in flight
NoCycle == [ pc |-> "none" ]

LoadedFrom(v) ==
    /\ vocabulary = v
    /\ loaded = TRUE
    /\ EMOJI_MAP = BuildEmojiMap(v)
    /\ WORD_CATEGORY_MAP = BuildWordCategoryMap(v)
    /\ VOCABULARY_SIZE = VocabularySize(v)
    /\ VOCABULARY_BY_CATEGORY = BuildByCategory(v)

\* the App component as first rendered, with no document attached
AppIdle ==
    /\ doc = << >>
    /\ selection = {}
    /\ effectPending = FALSE
    /\ status = "idle"
    /\ stats = Null
    /\ errorMessage = Null
    /\ showVocabBreakdown = FALSE
    /\ cycles = [ c \in 1..MaxCycles |-> NoCycle ]

EngineIdle ==
    /\ text = << >>
    /\ first = Null
    /\ second = Null
    /\ legacy = Null

-----------------------------------------------------------------------------
(* SpecEngine : one text, annotated and annotated again *)

\* U+200D ZERO WIDTH JOINER and U+1F464: appended to CatEmoji they give the
\* single emoji U+1F431 U+200D U+1F464, which begins with CatEmoji
JoinedSuffix == << "u200D", "uD83D", "uDC64" >>

Pieces ==
    { DogWord, << "D","O","G" >>, CatWord, << "h","i" >>,
      ProtoKeyConstructor, ProtoKeyProto,
      << " " >>, DogEmoji, CatEmoji, JoinedSuffix }

RECURSIVE TextsOf(_)
TextsOf(n) ==
    IF n = 0 THEN { << >> }
    ELSE LET shorter == TextsOf(n - 1)
         IN  shorter \cup { t \o p : t \in shorter, p \in Pieces }

Texts == TextsOf(MaxPieces)

InitEngine ==
    /\ LoadedFrom(Vocabulary)
    /\ AppIdle
    /\ text \in Texts
    /\ first = Null
    /\ second = Null
    /\ legacy = Null

Annotate ==
    /\ first = Null
    /\ first' = addVisualSupportsWithStats(text)
    /\ UNCHANGED << text, second, legacy, loadVars, appVars >>

AnnotateAgain ==
    /\ first # Null
    /\ second = Null
    /\ second' = addVisualSupportsWithStats(first.rewrittenText)
    /\ UNCHANGED << text, first, legacy, loadVars, appVars >>

AnnotateLegacy ==
    /\ legacy = Null
    /\ legacy' = [ once  |-> addVisualSupports(text),
                   twice |-> addVisualSupports(addVisualSupports(text)) ]
    /\ UNCHANGED << text, first, second, loadVars, appVars >>

NextEngine == Annotate \/ AnnotateAgain \/ AnnotateLegacy

SpecEngine == InitEngine /\ [][NextEngine]_vars

-----------------------------------------------------------------------------
(* Properties of the annotation functions (SpecEngine) *)

\* the words of the vocabulary list
VocabularyWords == { vocabulary[i].word : i \in 1..Len(vocabulary) }

\* the lower-cased word tokens of a text
LowerTokens(t) == { toLowerCase(w) : w \in Range(matchAll(t)) }

\* C1. Idempotence: annotating the rewritten text again returns the same
\* text and adds no support, for addVisualSupportsWithStats and for the
\* earlier addVisualSupports.
C1_Idempotence ==
    /\ second # Null =>
          /\ second.rewrittenText = first.rewrittenText
          /\ second.stats.supportsAdded = 0
    /\ legacy # Null => legacy.twice = legacy.once

\* a text in which the first call inserted supports and the second call ran
C1_Witness ==
    /\ second # Null
    /\ first.stats.supportsAdded > 1
    /\ first.rewrittenText # text

\* C3. Unmatched text unchanged: a text none of whose lower-cased tokens is
\* a vocabulary word comes back identical, with every count but
\* scannedWords zero and no category.
C3_UnmatchedUnchanged ==
    (first # Null /\ LowerTokens(text) \cap VocabularyWords = {}) =>
        /\ first.rewrittenText = text
        /\ first.stats.matchedWords = 0
        /\ first.stats.uniqueMatched = 0
        /\ first.stats.supportsAdded = 0
        /\ first.stats.categoriesUsed = << >>

\* the text after a token is exactly one space and then the emoji itself,
\* not a longer emoji sequence that the joiner U+200D continues
FollowedByExactly(after, emoji) ==
    /\ startsWith(after, << " " >> \o emoji)
    /\ ~startsWith(substring(after, 1 + Len(emoji)), << "u200D" >>)

\* C9. Exact-match suppression: for a text whose only token is a vocabulary
\* word at its start, no support is added exactly when the token is followed
\* by one space and the matched emoji; after extra whitespace or a different
\* emoji one support is added.
C9_ExactSuppression ==
    \A i \in 1..Len(vocabulary) :
        LET w == vocabulary[i].word
        IN  ( /\ first # Null
              /\ Len(matchAll(text)) = 1
              /\ startsWith(text, w)
              /\ matchAll(text)[1] = w )
            => ( first.stats.supportsAdded =
                   IF FollowedByExactly(substring(text, Len(w)), vocabulary[i].emoji)
                   THEN 0 ELSE 1 )

-----------------------------------------------------------------------------
(* SpecLoad : emoji-map.ts evaluated over a vocabulary list, then one token
   looked up *)

DogWordCapital == << "D","o","g" >>

VocabEntries ==
    [ word     : { DogWord, DogWordCapital, CatWord },
      emoji    : { DogEmoji, CatEmoji },
      category : { "animals", "pets" } ]

RECURSIVE VocabListsOf(_)
VocabListsOf(n) ==
    IF n = 0 THEN { << >> }
    ELSE LET shorter == VocabListsOf(n - 1)
         IN  shorter \cup { Append(v, e) : v \in shorter, e \in VocabEntries }

VocabLists == VocabListsOf(MaxEntries)

\* one-word texts, in every casing the model uses
TokenTexts ==
    { DogWord, DogWordCapital, << "D","O","G" >>, CatWord, << "C","a","t" >> }

InitLoad ==
    /\ vocabulary \in VocabLists
    /\ loaded = FALSE
    /\ EMOJI_MAP = << >>
    /\ WORD_CATEGORY_MAP = << >>
    /\ VOCABULARY_SIZE = 0
    /\ VOCABULARY_BY_CATEGORY = << >>
    /\ EngineIdle
    /\ AppIdle

\* the top-level statements of emoji-map.ts
LoadModule ==
    /\ ~loaded
    /\ loaded' = TRUE
    /\ EMOJI_MAP' = BuildEmojiMap(vocabulary)
    /\ WORD_CATEGORY_MAP' = BuildWordCategoryMap(vocabulary)
    /\ VOCABULARY_SIZE' = VocabularySize(vocabulary)
    /\ VOCABULARY_BY_CATEGORY' = BuildByCategory(vocabulary)
    /\ UNCHANGED << vocabulary, engineVars, appVars >>

\* addVisualSupportsWithStats on a one-word text, once the maps exist
AnnotateToken ==
    /\ loaded
    /\ first = Null
    /\ \E t \in TokenTexts :
          /\ text' = t
          /\ first' = addVisualSupportsWithStats(t)
    /\ UNCHANGED << second, legacy, loadVars, appVars >>

NextLoad == LoadModule \/ AnnotateToken

SpecLoad == InitLoad /\ [][NextLoad]_vars

-----------------------------------------------------------------------------
(* Properties of the loaded vocabulary (SpecLoad) *)

\* the index of the last entry of the list whose normalized word is w
LastEntryOf(w) ==
    CHOOSE i \in 1..Len(vocabulary) :
        /\ toLowerCase(vocabulary[i].word) = w
        /\ \A j \in 1..Len(vocabulary) :
              toLowerCase(vocabulary[j].word) = w => j <= i

NormalizedWords == { toLowerCase(vocabulary[i].word) : i \in 1..Len(vocabulary) }

\* the places << bucket, position >> of VOCABULARY_BY_CATEGORY holding word w
PlacesOf(w) ==
    { bp \in (1..Len(VOCABULARY_BY_CATEGORY)) \X (1..Len(vocabulary)) :
        /\ bp[2] <= Len(VOCABULARY_BY_CATEGORY[bp[1]].entries)
        /\ toLowerCase(VOCABULARY_BY_CATEGORY[bp[1]].entries[bp[2]].word) = w }

RECURSIVE SumOfBucketSizes(_)
SumOfBucketSizes(i) ==
    IF i = 0 THEN 0
    ELSE Len(VOCABULARY_BY_CATEGORY[i].entries) + SumOfBucketSizes(i - 1)

\* C7. Load-time duplicate policy: every derived structure reflects only the
\* last entry of each normalized word; the word is in one bucket, once, and
\* VOCABULARY_SIZE is the number of distinct words and the sum of the bucket
\* sizes.  Stated for lists whose words are already lower-case and that hold
\* a word twice.
C7_LastEntryWins ==
    ( /\ loaded
      /\ \A i \in 1..Len(vocabulary) :
            vocabulary[i].word = toLowerCase(vocabulary[i].word)
      /\ \E i, j \in 1..Len(vocabulary) :
            i < j /\ vocabulary[i].word = vocabulary[j].word ) =>
        /\ \A w \in NormalizedWords :
              LET last == vocabulary[LastEntryOf(w)]
              IN  /\ GetProp(EMOJI_MAP, w) = StrVal(last.emoji)
                  /\ GetProp(WORD_CATEGORY_MAP, w) = StrVal(last.category)
                  /\ Cardinality(PlacesOf(w)) = 1
                  /\ \A bp \in PlacesOf(w) :
                        /\ VOCABULARY_BY_CATEGORY[bp[1]].category = last.category
                        /\ VOCABULARY_BY_CATEGORY[bp[1]].entries[bp[2]].emoji
                              = last.emoji
        /\ VOCABULARY_SIZE = Cardinality(NormalizedWords)
        /\ VOCABULARY_SIZE = SumOfBucketSizes(Len(VOCABULARY_BY_CATEGORY))

\* C8. Case-insensitive matching with casing preserved: a token that is a
\* casing of a vocabulary entry's word comes back in its own casing followed
\* by one space and that entry's emoji.
C8_CaseInsensitive ==
    (loaded /\ first # Null /\ toLowerCase(text) \in NormalizedWords) =>
        first.rewrittenText =
            text \o << " " >> \o vocabulary[LastEntryOf(toLowerCase(text))].emoji

-----------------------------------------------------------------------------
(* app.tsx : onClick between the two awaits *)

\* the first forEach: every item is rewritten in place and its counts are
\* added to the totals
RECURSIVE RewriteContents(_, _, _)
RewriteContents(contents, i, acc) ==
    IF i > Len(contents) THEN acc
    ELSE LET r == addVisualSupportsWithStats(contents[i])
         IN  RewriteContents(contents, i + 1,
                [ acc EXCEPT
                    !.contents     = Append(@, r.rewrittenText),
                    !.itemStats    = Append(@, r.stats),
                    !.totalScanned = @ + r.stats.scannedWords,
                    !.totalMatched = @ + r.stats.matchedWords,
                    !.totalAdded   = @ + r.stats.supportsAdded ])

\* the inner loop of the second forEach, over the matches of one item
RECURSIVE CollectMatches(_, _, _)
CollectMatches(matches, k, acc) ==
    IF k > Len(matches) THEN acc
    ELSE LET lower == toLowerCase(matches[k])
             cat   == GetProp(WORD_CATEGORY_MAP, lower)
         IN  CollectMatches(matches, k + 1,
                IF Truthy(GetProp(EMOJI_MAP, lower))
                THEN [ acc EXCEPT
                         !.allUniqueTerms = SetAdd(@, lower),
                         !.allCategories =
                             IF Truthy(cat) THEN SetAdd(@, cat) ELSE @ ]
                ELSE acc)

\* the second forEach, over the rewritten items
RECURSIVE CollectContents(_, _, _)
CollectContents(contents, i, acc) ==
    IF i > Len(contents) THEN acc
    ELSE CollectContents(contents, i + 1,
            CollectMatches(matchAll(contents[i]), 1, acc))

\* onClick from the resolved read() up to the call of draft.save(): the
\* draft's rewritten contents and the locals the summary is built from
ProcessDraft(contents) ==
    LET rewritten ==
            RewriteContents(contents, 1,
                [ contents |-> << >>, itemStats |-> << >>,
                  totalScanned |-> 0, totalMatched |-> 0, totalAdded |-> 0 ])
    IN  CollectContents(rewritten.contents, 1,
            [ contents       |-> rewritten.contents,
              itemStats      |-> rewritten.itemStats,
              totalScanned   |-> rewritten.totalScanned,
              totalMatched   |-> rewritten.totalMatched,
              totalAdded     |-> rewritten.totalAdded,
              allUniqueTerms |-> << >>,
              allCategories  |-> << >> ])

\* the RunStats object handed to setStats
SummaryOf(locals) ==
    [ scannedWords   |-> locals.totalScanned,
      matchedWords   |-> locals.totalMatched,
      uniqueMatched  |-> Len(locals.allUniqueTerms),
      supportsAdded  |-> locals.totalAdded,
      categoriesUsed |-> locals.allCategories,
      vocabularySize |-> VOCABULARY_SIZE ]

\* what the host may reject a read() or save() with
HostErrors ==
    { [ isError |-> TRUE,  message |-> "The selection is no longer available." ],
      [ isError |-> TRUE,  message |-> "" ],
      [ isError |-> FALSE, message |-> "" ] }

\* err instanceof Error ? err.message : "An unexpected error occurred."
MessageOf(err) ==
    IF err.isError THEN err.message ELSE "An unexpected error occurred."

-----------------------------------------------------------------------------
(* Spec : the App component in the host editor *)

Space == << " " >>

\* the texts a text element of the document may hold at the start
ItemTexts ==
    { CatWord \o Space \o CatWord,
      DogWord \o Space \o CatWord,
      DogWord \o Space \o DogEmoji,
      ProtoKeyConstructor }

Docs == UNION { [ 1..n -> ItemTexts ] : n \in 1..MaxItems }

\* selection.count
count == Cardinality(selection)
hasSelection == count > 0
isRunning == status = "running"

\* the elements of a set of indices in increasing order
RECURSIVE Ascending(_)
Ascending(set) ==
    IF set = {} THEN << >>
    ELSE LET least == CHOOSE i \in set : \A j \in set : i <= j
         IN  << least >> \o Ascending(set \ {least})

InFlight == { c \in 1..MaxCycles : cycles[c].pc # "none" }

Init ==
    /\ LoadedFrom(Vocabulary)
    /\ EngineIdle
    /\ doc \in Docs
    /\ selection \in SUBSET (1..Len(doc))
    \* the effect runs once after the first render
    /\ effectPending = TRUE
    /\ status = "idle"
    /\ stats = Null
    /\ errorMessage = Null
    /\ showVocabBreakdown = FALSE
    /\ cycles = [ c \in 1..MaxCycles |-> NoCycle ]

\* the user selects or deselects text elements; useSelection re-renders the
\* App, and the effect is scheduled when selection.count differs
SelectionChange ==
    /\ ~effectPending
    /\ \E sel \in SUBSET (1..Len(doc)) :
          /\ sel # selection
          /\ selection' = sel
          /\ effectPending' = (Cardinality(sel) # count)
    /\ UNCHANGED << doc, status, stats, errorMessage, showVocabBreakdown,
                    cycles, loadVars, engineVars >>

\* useEffect(..., [selection.count])
SelectionCountEffect ==
    /\ effectPending
    /\ effectPending' = FALSE
    /\ IF count = 0
       THEN /\ status' = "idle"
            /\ stats' = Null
            /\ errorMessage' = Null
            /\ showVocabBreakdown' = FALSE
       ELSE UNCHANGED << status, stats, errorMessage, showVocabBreakdown >>
    /\ UNCHANGED << doc, selection, cycles, loadVars, engineVars >>

\* resetToIdle, the onDismiss of the error Alert
DismissError ==
    /\ ~effectPending
    /\ status = "error"
    /\ Truthy(errorMessage)
    /\ status' = "idle"
    /\ stats' = Null
    /\ errorMessage' = Null
    /\ UNCHANGED << doc, selection, effectPending, showVocabBreakdown,
                    cycles, loadVars, engineVars >>

\* the "Vocab Size" button of the run summary
ShowBreakdown ==
    /\ ~effectPending
    /\ status = "success" /\ stats # Null /\ ~showVocabBreakdown
    /\ showVocabBreakdown' = TRUE
    /\ UNCHANGED << doc, selection, effectPending, status, stats,
                    errorMessage, cycles, loadVars, engineVars >>

\* the back button of the vocabulary breakdown
HideBreakdown ==
    /\ ~effectPending
    /\ status = "success" /\ stats # Null /\ showVocabBreakdown
    /\ showVocabBreakdown' = FALSE
    /\ UNCHANGED << doc, selection, effectPending, status, stats,
                    errorMessage, cycles, loadVars, engineVars >>

\* a click on the primary Button (disabled = !hasSelection || isRunning):
\* onClick up to its first await, selection.read() already called
Click ==
    /\ ~effectPending
    /\ hasSelection /\ ~isRunning
    /\ InFlight # 1..MaxCycles
    /\ LET c == CHOOSE c \in 1..MaxCycles :
                    /\ cycles[c].pc = "none"
                    /\ \A d \in 1..MaxCycles : cycles[d].pc = "none" => c <= d
       IN  cycles' = [ cycles EXCEPT
                         ![c] = [ pc |-> "reading", selection |-> selection ] ]
    /\ status' = "running"
    /\ stats' = Null
    /\ errorMessage' = Null
    /\ UNCHANGED << doc, selection, effectPending, showVocabBreakdown,
                    loadVars, engineVars >>

\* selection.read() resolves: onClick runs on to await draft.save()
ReadResolve(c) ==
    /\ cycles[c].pc = "reading"
    /\ LET indices  == Ascending(cycles[c].selection)
           contents == [ k \in 1..Len(indices) |-> doc[indices[k]] ]
           locals   == ProcessDraft(contents)
       IN  cycles' = [ cycles EXCEPT
                         ![c] = [ pc        |-> "saving",
                                  selection |-> cycles[c].selection,
                                  read      |-> contents,
                                  locals    |-> locals ] ]
    /\ UNCHANGED << doc, selection, effectPending, status, stats,
                    errorMessage, showVocabBreakdown, loadVars, engineVars >>

\* the catch block of onClick
Catch(c, err) ==
    /\ errorMessage' = StrVal(MessageOf(err))
    /\ status' = "error"
    /\ cycles' = [ cycles EXCEPT ![c] = NoCycle ]
    /\ UNCHANGED << doc, selection, effectPending, stats, showVocabBreakdown,
                    loadVars, engineVars >>

\* selection.read() rejects
ReadReject(c, err) ==
    /\ cycles[c].pc = "reading"
    /\ Catch(c, err)

\* draft.save() resolves: the host takes the draft's texts, then setStats
\* and setStatus("success")
SaveResolve(c) ==
    /\ cycles[c].pc = "saving"
    /\ LET indices == Ascending(cycles[c].selection)
       IN  doc' = [ i \in 1..Len(doc) |->
                      IF i \in cycles[c].selection
                      THEN cycles[c].locals.contents[
                              CHOOSE k \in 1..Len(indices) : indices[k] = i]
                      ELSE doc[i] ]
    /\ stats' = SummaryOf(cycles[c].locals)
    /\ status' = "success"
    /\ cycles' = [ cycles EXCEPT ![c] = NoCycle ]
    /\ UNCHANGED << selection, effectPending, errorMessage,
                    showVocabBreakdown, loadVars, engineVars >>

\* draft.save() rejects
SaveReject(c, err) ==
    /\ cycles[c].pc = "saving"
    /\ Catch(c, err)

Next ==
    \/ SelectionChange
    \/ SelectionCountEffect
    \/ DismissError
    \/ ShowBreakdown
    \/ HideBreakdown
    \/ Click
    \/ \E c \in 1..MaxCycles : ReadResolve(c)
    \/ \E c \in 1..MaxCycles, err \in HostErrors : ReadReject(c, err)
    \/ \E c \in 1..MaxCycles : SaveResolve(c)
    \/ \E c \in 1..MaxCycles, err \in HostErrors : SaveReject(c, err)

Spec == Init /\ [][Next]_vars

-----------------------------------------------------------------------------
(* Properties of the App component (Spec) *)

\* C2. Re-entrancy gating: at most one onClick cycle is between its read()
\* and the end of its save().
C2_OneCycleInFlight == Cardinality(InFlight) <= 1

MonotonicCounts(st) ==
    /\ st.supportsAdded <= st.matchedWords
    /\ st.matchedWords <= st.scannedWords
    /\ st.uniqueMatched <= st.matchedWords
    /\ st.uniqueMatched <= st.vocabularySize

\* C4. Monotonic counts: the per-item statistics and the batch summary both
\* satisfy supportsAdded <= matchedWords <= scannedWords,
\* uniqueMatched <= matchedWords and uniqueMatched <= vocabularySize.
C4_MonotonicCounts ==
    /\ stats # Null => MonotonicCounts(stats)
    /\ \A c \in 1..MaxCycles :
          cycles[c].pc = "saving" =>
              /\ MonotonicCounts(SummaryOf(cycles[c].locals))
              /\ \A k \in 1..Len(cycles[c].locals.itemStats) :
                    MonotonicCounts(cycles[c].locals.itemStats[k])

\* the vocabulary words that occur, lower-cased, as a token of some item
WordsIn(items) ==
    UNION { LowerTokens(items[k]) : k \in 1..Len(items) } \cap VocabularyWords

RECURSIVE SumMatched(_, _)
SumMatched(itemStats, k) ==
    IF k = 0 THEN 0
    ELSE itemStats[k].matchedWords + SumMatched(itemStats, k - 1)

\* C5. Batch dedup: the summary's uniqueMatched is the number of distinct
\* vocabulary words occurring as a token of an original item, its
\* categoriesUsed are the categories of those words, and its matchedWords is
\* the sum of the per-item match counts.
C5_BatchDedup ==
    \A c \in 1..MaxCycles :
        cycles[c].pc = "saving" =>
            LET summary == SummaryOf(cycles[c].locals)
                words   == WordsIn(cycles[c].read)
            IN  /\ summary.uniqueMatched = Cardinality(words)
                /\ Range(summary.categoriesUsed) =
                      { StrVal(WORD_CATEGORY_MAP[w]) : w \in words }
                /\ summary.matchedWords =
                      SumMatched(cycles[c].locals.itemStats,
                                 Len(cycles[c].locals.itemStats))

\* C6. No partial success on failure: a cycle whose read() or save() rejects
\* ends with status "error", an error message and no stats; "success" and
\* stats are set only by a resolved save(); a failed read changes no text.
C6_NoPartialSuccess ==
    [][ /\ \A c \in 1..MaxCycles, err \in HostErrors :
              (ReadReject(c, err) \/ SaveReject(c, err)) =>
                  /\ status' = "error"
                  /\ errorMessage' # Null
                  /\ stats' = Null
        /\ \A c \in 1..MaxCycles, err \in HostErrors :
              ReadReject(c, err) => doc' = doc
        /\ ( \/ (status' = "success" /\ status # "success")
             \/ (stats' # Null /\ stats' # stats) )
              => \E c \in 1..MaxCycles : SaveResolve(c) ]_vars

\* C10. No selection means idle: with nothing selected and the
\* selection-count effect run, the App is idle with no stats and no error.
C10_NoSelectionIdle ==
    (count = 0 /\ ~effectPending) =>
        /\ status = "idle"
        /\ stats = Null
        /\ errorMessage = Null

=============================================================================
